---- MODULE Spec2Model ----
(***************************************************************************)
(* github2owl: the graph-building crawler of scraper.py (build_graph and   *)
(* its helpers) as a state machine.  Python strings are sequences of       *)
(* one-token strings so that sanitize() and replace("/", "-") are computed *)
(* and not assumed; the GitHub API client is the environment: it serves a  *)
(* fixed entity graph, reports an arbitrary quota at every read and may    *)
(* raise GithubException or socket.error at every call that reaches it.    *)
(***************************************************************************)
EXTENDS Integers, Sequences, FiniteSets, TLC

\* ------------------------------------------------------------------------
\* Bounds of the model
\* ------------------------------------------------------------------------
\* every max_* fan-out limit is drawn from 1..MaxLimit
MaxLimit == 2
\* max_iterations is drawn from 1..MaxIterations
MaxIterations == 2
\* the API client raises at most MaxFaults recoverable faults in one run
MaxFaults == 1

\* ------------------------------------------------------------------------
\* Program constants
\* ------------------------------------------------------------------------
margin == 500
sleep_time == 350

\* ------------------------------------------------------------------------
\* Strings
\* ------------------------------------------------------------------------
Min(a, b) == IF a < b THEN a ELSE b

RECURSIVE Replace(_, _, _)
\* str.replace(old, new) on single-token old/new
Replace(text, old, new) ==
  IF text = <<>> THEN <<>>
  ELSE <<IF Head(text) = old THEN new ELSE Head(text)>> \o Replace(Tail(text), old, new)

RECURSIVE Remove(_, _)
\* str.replace(old, "")
Remove(text, old) ==
  IF text = <<>> THEN <<>>
  ELSE (IF Head(text) = old THEN <<>> ELSE <<Head(text)>>) \o Remove(Tail(text), old)

sanitize(text) == Remove(text, " ")

Count(text, c) == Cardinality({i \in 1..Len(text) : text[i] = c})

\* validators.email: one "@" with a non-empty local part and domain, no blank
validators_email(text) ==
  /\ Count(text, "@") = 1
  /\ Count(text, " ") = 0
  /\ Len(text) >= 3
  /\ text[1] # "@"
  /\ text[Len(text)] # "@"

\* validators.url: a scheme followed by a non-empty rest, no blank
validators_url(text) ==
  /\ Len(text) >= 2
  /\ text[1] = "http://"
  /\ Count(text, " ") = 0

\* ------------------------------------------------------------------------
\* The platform: entities served by the API client
\* ------------------------------------------------------------------------
NoText == <<>>

\* The entity graph: per entity its class and the attributes and listings that
\* are not empty.  Four components, each reached from its own seeds:
\*   alice..        the account scenario (three followed accounts, one repository)
\*   mia..          accounts, an organization and repositories referring to each other,
\*                  with emails and URLs that need sanitizing or fail validation
\*   f, f-b, f/b    a repository whose sanitized full name is an account's login
\*   eve, eve/r     a repository without contributors
World ==
  [alice |-> [cls |-> "NamedUser", login |-> <<"a">>, name |-> <<"A">>,
              avatar_url |-> <<"http://", "i">>, email |-> <<"a", "@", "x">>,
              html_url |-> <<"http://", "a">>,
              following |-> <<"bob", "carol", "dave">>, repos |-> <<"proj">>],
   bob |-> [cls |-> "NamedUser", login |-> <<"b">>, email |-> <<"b", " ", "@", "x">>,
            html_url |-> <<"http://", "b">>],
   carol |-> [cls |-> "NamedUser", login |-> <<"c">>, email |-> <<"c">>,
              html_url |-> <<"http://", " ", "c">>],
   dave |-> [cls |-> "NamedUser", login |-> <<"d">>],
   proj |-> [cls |-> "Repository", full_name |-> <<"a", "/", "p">>, name |-> <<"p">>,
             html_url |-> <<"http://", "p">>, description |-> <<"P">>,
             languages |-> << <<"Py">>, <<"C">> >>,
             contributors |-> <<"alice">>, owner |-> "alice"],
   mia |-> [cls |-> "NamedUser", login |-> <<"m">>, email |-> <<"m", " ", "@", "x">>,
            following |-> <<"nick">>, repos |-> <<"mr">>, orgs |-> <<"guild">>],
   nick |-> [cls |-> "NamedUser", login |-> <<"n">>, email |-> <<"n">>,
             avatar_url |-> <<"http://", " ", "i">>,
             following |-> <<"mia">>, orgs |-> <<"guild">>],
   kim |-> [cls |-> "NamedUser", login |-> <<"k">>],
   guild |-> [cls |-> "Organization", login |-> <<"g">>, name |-> <<"G">>,
              email |-> <<"g", "@", "x">>, html_url |-> <<"http://", "g">>,
              location |-> <<"L">>,
              members |-> <<"mia", "nick", "kim">>, repos |-> <<"gs">>],
   mr |-> [cls |-> "Repository", full_name |-> <<"m", "/", "r">>, name |-> <<"r">>,
           html_url |-> <<"r">>,
           languages |-> << <<"Py">> >>,
           contributors |-> <<"nick", "mia">>, owner |-> "mia"],
   gs |-> [cls |-> "Repository", full_name |-> <<"g", "/", "s">>, name |-> <<"s">>,
           contributors |-> <<"guild", "kim">>, owner |-> "guild"],
   f |-> [cls |-> "NamedUser", login |-> <<"f">>,
          following |-> <<"fb_user">>, repos |-> <<"fb">>],
   fb_user |-> [cls |-> "NamedUser", login |-> <<"f", "-", "b">>],
   fb |-> [cls |-> "Repository", full_name |-> <<"f", "/", "b">>, name |-> <<"b">>,
           contributors |-> <<"fb_user">>, owner |-> "f"],
   eve |-> [cls |-> "NamedUser", login |-> <<"e">>, repos |-> <<"er">>],
   er |-> [cls |-> "Repository", full_name |-> <<"e", "/", "r">>, name |-> <<"r">>,
           owner |-> "eve"]]

Entities == DOMAIN World

\* ------------------------------------------------------------------------
\* State of one run of build_graph
\* ------------------------------------------------------------------------
VARIABLES
  world,          \* the entities the platform serves (fixed during a run)
  args,           \* the arguments of build_graph: seed and limits
  pc,             \* the statement build_graph is at
  phase,          \* "bounded" (first while loop) or "closure" (second)
  pace_ret,       \* where the running pause_requests call returns to
  nodes_queue,    \* the frontier (deque)
  visited_nodes,  \* set of keys
  nodes_iris,     \* dict: key -> node reference
  num_iterations,
  graph,          \* the rdflib Graph: a set of triples
  node,           \* the dequeued item
  contributor,    \* the loop variable of the contributors loop (it outlives the loop)
  raised,         \* the exception raised last, "none" once the next item is dequeued
  faults,         \* faults raised by the API client so far
  described,      \* history: number of describer calls per entity
  pre,            \* history: visited set, frontier and graph right after the last dequeue
  first_run       \* history: how an earlier call of build_graph with these arguments ended

vars == <<world, args, pc, phase, pace_ret, nodes_queue, visited_nodes, nodes_iris,
          num_iterations, graph, node, contributor, raised, faults, described, pre,
          first_run>>

\* attribute or listing `a` of entity e as the API client returns it (empty if absent)
Attr(e, a) == IF a \in DOMAIN world[e] THEN world[e][a] ELSE NoText

\* ------------------------------------------------------------------------
\* Graph terms
\* ------------------------------------------------------------------------
\* a node reference github2owl_users[x] / github2owl_repos[x] / github2owl_orgs[x]
\* or a vocabulary term schema.X: the namespace and the local name
github2owl_users(local) == [ns |-> "users", v |-> local]
github2owl_repos(local) == [ns |-> "repos", v |-> local]
github2owl_orgs(local) == [ns |-> "orgs", v |-> local]
schema(term) == [ns |-> "schema", v |-> <<term>>]

\* Literal(text, datatype=schema.Text / schema.URL)
Literal(text, datatype) == [ns |-> datatype, v |-> text]

Triple(s, p, o) == [s |-> s, p |-> p, o |-> o]

NodeNamespaces == {"users", "repos", "orgs"}
EdgePredicates == {"follows", "creator", "memberOf", "member", "contributor"}

\* ------------------------------------------------------------------------
\* Frontier items and canonical identifiers
\* ------------------------------------------------------------------------
\* an entity object held by the frontier
Item(e) == [cls |-> world[e].cls, ent |-> e]
\* the bare login string of entity e (a Python str, not an entity object)
LoginStr(e) == [cls |-> "str", ent |-> e]

\* repo.full_name.replace("/", "-")
RepoName(e) == Replace(Attr(e, "full_name"), "/", "-")

\* the key under which build_graph files entity e in visited_nodes and nodes_iris
Key(e) == IF world[e].cls = "Repository" THEN RepoName(e) ELSE Attr(e, "login")

\* islice cutting one element late
islice_through(listing, limit) == SubSeq(listing, 1, Min(Len(listing), limit + 1))

\* islice(listing, 0, limit)
islice(listing, limit) == SubSeq(listing, 1, Min(Len(listing), limit))

\* ------------------------------------------------------------------------
\* Entity describers: the triples added, in the order of the source
\* ------------------------------------------------------------------------
When(cond, triples) == IF cond THEN triples ELSE <<>>

\* an email step that validates and emits the email as the platform gave it
EmailTriples_unsanitized(e, node_iri) ==
  When(Attr(e, "email") # NoText /\ validators_email(Attr(e, "email")),
       <<Triple(node_iri, "email", Literal(<<"mailto:">> \o Attr(e, "email"), "Text"))>>)

EmailTriples(e, node_iri) ==
  LET sanitized_email == sanitize(Attr(e, "email"))
  IN  When(Attr(e, "email") # NoText /\ validators_email(sanitized_email),
           <<Triple(node_iri, "email", Literal(<<"mailto:">> \o sanitized_email, "Text"))>>)

UrlTriples(e, node_iri) ==
  LET sanitized_url == sanitize(Attr(e, "html_url"))
  IN  When(Attr(e, "html_url") # NoText /\ validators_url(Attr(e, "html_url")),
           <<Triple(node_iri, "url", Literal(sanitized_url, "URL"))>>)

describe_user_node(e, node_iri) ==
  <<Triple(node_iri, "type", schema("Person")),
    Triple(node_iri, "alternateName", Literal(Attr(e, "login"), "Text"))>>
  \o When(Attr(e, "name") # NoText,
          <<Triple(node_iri, "name", Literal(Attr(e, "name"), "Text"))>>)
  \o When(Attr(e, "avatar_url") # NoText,
          <<Triple(node_iri, "image", Literal(Attr(e, "avatar_url"), "URL"))>>)
  \o EmailTriples(e, node_iri)
  \o UrlTriples(e, node_iri)

describe_org_node(e, node_iri) ==
  <<Triple(node_iri, "type", schema("Organization")),
    Triple(node_iri, "alternateName", Literal(Attr(e, "login"), "Text"))>>
  \o When(Attr(e, "name") # NoText,
          <<Triple(node_iri, "name", Literal(Attr(e, "name"), "Text"))>>)
  \o When(Attr(e, "avatar_url") # NoText,
          <<Triple(node_iri, "image", Literal(Attr(e, "avatar_url"), "URL"))>>)
  \o When(Attr(e, "location") # NoText,
          <<Triple(node_iri, "location", Literal(Attr(e, "location"), "Text"))>>)
  \o EmailTriples(e, node_iri)
  \o UrlTriples(e, node_iri)

\* the triples describe_repo_node adds before it calls node.get_languages()
RepoAttributes(e, node_iri) ==
  <<Triple(node_iri, "type", schema("SoftwareSourceCode"))>>
  \o When(Attr(e, "html_url") # NoText,
          <<Triple(node_iri, "codeRepository", Literal(Attr(e, "html_url"), "URL"))>>)
  \o When(Attr(e, "name") # NoText,
          <<Triple(node_iri, "alternateName", Literal(Attr(e, "name"), "Text"))>>)
  \o When(Attr(e, "full_name") # NoText,
          <<Triple(node_iri, "name", Literal(Attr(e, "full_name"), "Text"))>>)
  \o When(Attr(e, "description") # NoText,
          <<Triple(node_iri, "description", Literal(Attr(e, "description"), "Text"))>>)

describe_repo_node(e, node_iri) ==
  RepoAttributes(e, node_iri)
  \o [i \in 1..Len(Attr(e, "languages")) |->
        Triple(node_iri, "programmingLanguage", Literal(Attr(e, "languages")[i], "Text"))]

Range(seq) == {seq[i] : i \in 1..Len(seq)}

\* what a describer has added when the API client raises inside it: a lazily
\* completed account or organization raises at its first attribute after login,
\* a repository at get_languages()
DescribedBeforeFault(e, node_iri) ==
  IF world[e].cls = "Repository" THEN RepoAttributes(e, node_iri)
  ELSE IF world[e].cls = "NamedUser" THEN SubSeq(describe_user_node(e, node_iri), 1, 2)
  ELSE SubSeq(describe_org_node(e, node_iri), 1, 2)

\* ------------------------------------------------------------------------
\* Inputs and initial state
\* ------------------------------------------------------------------------
NoItem == [cls |-> "none", ent |-> "none"]

\* no earlier call
NoRun == [ended |-> "none", graph |-> {}]

\* seed_name with the seed_type the caller passes for it
Seeds ==
  {<<"alice", "user">>, <<"mia", "user">>, <<"f", "user">>, <<"eve", "user">>,
   <<"guild", "org">>,
   <<"proj", "repo">>, <<"mr", "repo">>, <<"gs", "repo">>, <<"fb", "repo">>, <<"er", "repo">>}

\* the limits of one call: one value for the account-to-account classes and one
\* for the classes that involve repositories and organizations
Limits ==
  {[max_following |-> a, max_members |-> a,
    max_contributors |-> b, max_repos |-> b, max_orgs |-> b] :
     a \in 1..MaxLimit, b \in 1..MaxLimit}

Args ==
  {[seed_name |-> sd[1], seed_type |-> sd[2], max_following |-> l.max_following,
    max_contributors |-> l.max_contributors, max_members |-> l.max_members,
    max_repos |-> l.max_repos, max_orgs |-> l.max_orgs, max_iterations |-> it] :
     sd \in Seeds, l \in Limits, it \in 1..MaxIterations}

\* the locals of build_graph at its entry (lines 180-184)
Entry ==
  /\ pc = "seeding"
  /\ phase = "bounded"
  /\ pace_ret = "none"
  /\ nodes_queue = <<>>
  /\ visited_nodes = {}
  /\ nodes_iris = <<>>
  /\ num_iterations = 1
  /\ graph = {}
  /\ node = NoItem
  /\ contributor = NoItem
  /\ raised = "none"
  /\ faults = 0
  /\ described = [e \in Entities |-> 0]
  /\ pre = [visited |-> {}, queue |-> <<>>, graph |-> {}]

Init ==
  /\ world = World
  /\ args \in Args
  /\ first_run = NoRun
  /\ Entry

\* ------------------------------------------------------------------------
\* Dictionary and loop helpers
\* ------------------------------------------------------------------------
\* d[k] = v
Bind(d, k, v) == [x \in (DOMAIN d) \cup {k} |-> IF x = k THEN v ELSE d[x]]

\* if k not in d: d[k] = v
Register(d, k, v) == IF k \in DOMAIN d THEN d ELSE Bind(d, k, v)

\* the node reference a contributor is registered under (isinstance test)
ContributorIri(e) ==
  IF world[e].cls = "NamedUser" THEN github2owl_users(Attr(e, "login"))
  ELSE github2owl_orgs(Attr(e, "login"))

\* One pass of a bounded-phase relation loop over target t = [item, key, iri]:
\* enqueue unless visited, register unless known, add the edge
LinkOne(st, subj, pred, t) ==
  LET iris == Register(st.iris, t.key, t.iri)
  IN  [queue |-> IF t.key \notin visited_nodes THEN Append(st.queue, t.item) ELSE st.queue,
       iris |-> iris,
       graph |-> st.graph \cup {Triple(subj, pred, iris[t.key])}]

RECURSIVE LinkAll(_, _, _, _)
LinkAll(st, subj, pred, targets) ==
  IF targets = <<>> THEN st
  ELSE CHOOSE after \in {LinkAll(next, subj, pred, Tail(targets)) :
                           next \in {LinkOne(st, subj, pred, Head(targets))}} : TRUE

\* a closure-phase relation loop that also enqueues the targets not yet known
LinkKnown_enqueues(st, subj, pred, targets) ==
  [queue |-> st.queue \o
               [i \in 1..Len(SelectSeq(targets, LAMBDA t : t.key \notin DOMAIN st.iris)) |->
                  SelectSeq(targets, LAMBDA t : t.key \notin DOMAIN st.iris)[i].item],
   iris |-> st.iris,
   graph |-> st.graph \cup {Triple(subj, pred, st.iris[targets[i].key]) :
                              i \in {j \in 1..Len(targets) : targets[j].key \in DOMAIN st.iris}}]

\* One closure-phase relation loop: add the edge to every target already known
LinkKnown(st, subj, pred, targets) ==
  [st EXCEPT !.graph = @ \cup {Triple(subj, pred, st.iris[targets[i].key]) :
                                 i \in {j \in 1..Len(targets) : targets[j].key \in DOMAIN st.iris}}]

Target(item, key, iri) == [item |-> item, key |-> key, iri |-> iri]

\* the targets of the relation loops, cut by islice
FollowingTargets(e) ==
  LET l == islice(Attr(e, "following"), args.max_following)
  IN  [i \in 1..Len(l) |-> Target(LoginStr(l[i]), Attr(l[i], "login"),
                                  github2owl_users(Attr(l[i], "login")))]

ReposTargets(e) ==
  LET l == islice(Attr(e, "repos"), args.max_repos)
  IN  [i \in 1..Len(l) |-> Target(Item(l[i]), RepoName(l[i]), github2owl_repos(RepoName(l[i])))]

OrgsTargets(e) ==
  LET l == islice(Attr(e, "orgs"), args.max_orgs)
  IN  [i \in 1..Len(l) |-> Target(Item(l[i]), Attr(l[i], "login"),
                                  github2owl_orgs(Attr(l[i], "login")))]

MembersTargets(e) ==
  LET l == islice(Attr(e, "members"), args.max_members)
  IN  [i \in 1..Len(l) |-> Target(Item(l[i]), Attr(l[i], "login"),
                                  github2owl_users(Attr(l[i], "login")))]

ContributorsTargets(e) ==
  LET l == islice(Attr(e, "contributors"), args.max_contributors)
  IN  [i \in 1..Len(l) |-> Target(Item(l[i]), Attr(l[i], "login"), ContributorIri(l[i]))]

\* the relation loop build_graph runs at each listing statement
Listing(at) ==
  LET e == node.ent
      login == Attr(e, "login")
  IN  CASE at = "b_following" ->
             [subj |-> github2owl_users(login), pred |-> "follows", targets |-> FollowingTargets(e)]
        [] at = "b_user_repos" ->
             [subj |-> github2owl_users(login), pred |-> "creator", targets |-> ReposTargets(e)]
        [] at = "b_orgs" ->
             [subj |-> github2owl_users(login), pred |-> "memberOf", targets |-> OrgsTargets(e)]
        [] at = "b_members" ->
             [subj |-> github2owl_orgs(login), pred |-> "member", targets |-> MembersTargets(e)]
        [] at = "b_org_repos" ->
             [subj |-> github2owl_orgs(login), pred |-> "creator", targets |-> ReposTargets(e)]
        [] at = "b_contributors" ->
             [subj |-> github2owl_repos(RepoName(e)), pred |-> "contributor",
              targets |-> ContributorsTargets(e)]
        [] at = "c_following" ->
             [subj |-> nodes_iris[login], pred |-> "follows", targets |-> FollowingTargets(e)]
        [] at = "c_user_repos" ->
             [subj |-> nodes_iris[login], pred |-> "creator", targets |-> ReposTargets(e)]
        [] at = "c_orgs" ->
             [subj |-> nodes_iris[login], pred |-> "memberOf", targets |-> OrgsTargets(e)]
        [] at = "c_members" ->
             [subj |-> nodes_iris[login], pred |-> "member", targets |-> MembersTargets(e)]
        [] at = "c_org_repos" ->
             [subj |-> nodes_iris[login], pred |-> "creator", targets |-> ReposTargets(e)]

BoundedListings == {"b_following", "b_user_repos", "b_orgs", "b_members", "b_org_repos",
                    "b_contributors"}
ClosureListings == {"c_following", "c_user_repos", "c_orgs", "c_members", "c_org_repos"}

\* the frontier, table and graph after the loop at `at` has run over its first k targets
AfterLoop(at, k) ==
  LET l == Listing(at)
      st == [queue |-> nodes_queue, iris |-> nodes_iris, graph |-> graph]
  IN  IF at \in BoundedListings
      THEN LinkAll(st, l.subj, l.pred, SubSeq(l.targets, 1, k))
      ELSE LinkKnown(st, l.subj, l.pred, SubSeq(l.targets, 1, k))

LoopHead == IF phase = "bounded" THEN "b_loop" ELSE "c_loop"

\* ------------------------------------------------------------------------
\* Seeding (lines 180-189)
\* ------------------------------------------------------------------------
\* get_seed_node: the entity, or the exception the lookup ends with.  SeedType
\* has the members user, repo and org; the third test reads SeedType.team
get_seed_node(seed_name, seed_type) ==
  IF seed_type = "user" THEN [ok |-> TRUE, item |-> Item(seed_name), exc |-> "none"]
  ELSE IF seed_type = "repo" THEN [ok |-> TRUE, item |-> Item(seed_name), exc |-> "none"]
  ELSE [ok |-> FALSE, item |-> NoItem, exc |-> "AttributeError"]

Seeding ==
  /\ pc = "seeding"
  /\ LET seed == get_seed_node(args.seed_name, args.seed_type)
     IN  IF seed.ok
         THEN /\ nodes_queue' = <<seed.item>>
              /\ pc' = "b_loop"
              /\ UNCHANGED raised
         ELSE /\ pc' = "fatal"
              /\ raised' = seed.exc
              /\ UNCHANGED nodes_queue
  /\ UNCHANGED <<world, args, first_run, phase, pace_ret, visited_nodes, nodes_iris, num_iterations, graph,
                 node, contributor, faults, described, pre>>

\* ------------------------------------------------------------------------
\* Loop heads
\* ------------------------------------------------------------------------
Dequeue ==
  /\ node' = Head(nodes_queue)
  /\ nodes_queue' = Tail(nodes_queue)
  /\ raised' = "none"
  /\ pre' = [visited |-> visited_nodes, queue |-> Tail(nodes_queue), graph |-> graph]
  /\ pc' = "pace"

\* while nodes_queue and num_iterations <= max_iterations: popleft; pause_requests
BDequeue ==
  /\ pc = "b_loop"
  /\ nodes_queue # <<>>
  /\ num_iterations <= args.max_iterations
  /\ Dequeue
  /\ pace_ret' = "b_node"
  /\ UNCHANGED <<world, args, first_run, phase, visited_nodes, nodes_iris, num_iterations, graph,
                 contributor, faults, described>>

\* the first loop ends: queue_elements = 1, queue_size = len(nodes_queue)
BExit ==
  /\ pc = "b_loop"
  /\ ~(nodes_queue # <<>> /\ num_iterations <= args.max_iterations)
  /\ pc' = "c_loop"
  /\ phase' = "closure"
  /\ UNCHANGED <<world, args, first_run, pace_ret, nodes_queue, visited_nodes, nodes_iris, num_iterations,
                 graph, node, contributor, raised, faults, described, pre>>

\* while nodes_queue: popleft; pause_requests
CDequeue ==
  /\ pc = "c_loop"
  /\ nodes_queue # <<>>
  /\ Dequeue
  /\ pace_ret' = "c_node"
  /\ UNCHANGED <<world, args, first_run, phase, visited_nodes, nodes_iris, num_iterations, graph,
                 contributor, faults, described>>

\* return graph
CExit ==
  /\ pc = "c_loop"
  /\ nodes_queue = <<>>
  /\ pc' = "done"
  /\ UNCHANGED <<world, args, first_run, phase, pace_ret, nodes_queue, visited_nodes, nodes_iris,
                 num_iterations, graph, node, contributor, raised, faults, described, pre>>

\* ------------------------------------------------------------------------
\* pause_requests (lines 134-150)
\* ------------------------------------------------------------------------
\* what github.rate_limiting[0] may read
Quotas == {0, margin, margin + 1}

\* while github.rate_limiting[0] <= margin: false, the call returns
PaceReturn ==
  /\ pc = "pace"
  /\ \E remaining_requests \in Quotas : ~(remaining_requests <= margin)
  /\ pc' = pace_ret
  /\ pace_ret' = "none"
  /\ UNCHANGED <<world, args, first_run, phase, nodes_queue, visited_nodes, nodes_iris, num_iterations,
                 graph, node, contributor, raised, faults, described, pre>>

\* while github.rate_limiting[0] <= margin: true, time.sleep(sleep_time)
PaceSleep ==
  /\ pc = "pace"
  /\ \E remaining_requests \in Quotas : remaining_requests <= margin
  /\ pc' = "sleep"
  /\ UNCHANGED <<world, args, first_run, phase, pace_ret, nodes_queue, visited_nodes, nodes_iris,
                 num_iterations, graph, node, contributor, raised, faults, described, pre>>

\* the sleep ends, github = Github(...), back to the loop test
PaceWake ==
  /\ pc = "sleep"
  /\ pc' = "pace"
  /\ UNCHANGED <<world, args, first_run, phase, pace_ret, nodes_queue, visited_nodes, nodes_iris,
                 num_iterations, graph, node, contributor, raised, faults, described, pre>>

\* going on to the next statement without a call of pause_requests
Pace_skipped(next) ==
  /\ pc' = next
  /\ pace_ret' = "none"

\* pause_requests(...) before the next statement `next`
Pace(next) ==
  /\ pc' = "pace"
  /\ pace_ret' = next

\* ------------------------------------------------------------------------
\* Node processing, shared steps
\* ------------------------------------------------------------------------
Describe(e, triples) ==
  /\ graph' = graph \cup Range(triples)
  /\ described' = [described EXCEPT ![e] = @ + 1]

\* the whole relation loop at the current statement
RunLoop ==
  \E st \in {AfterLoop(pc, Len(Listing(pc).targets))} :
      /\ nodes_queue' = st.queue
      /\ nodes_iris' = st.iris
      /\ graph' = st.graph

\* visited_nodes.add(key); num_iterations += 1; back to the loop test
MarkVisited(key) ==
  /\ visited_nodes' = visited_nodes \cup {key}
  /\ num_iterations' = num_iterations + 1
  /\ pc' = "b_loop"

\* raise exc out of the statement build_graph is at
Raise(exc) ==
  /\ raised' = exc
  /\ pc' = "except"

\* ------------------------------------------------------------------------
\* Bounded phase (lines 191-301)
\* ------------------------------------------------------------------------
\* isinstance(node, NamedUser): register, describe_user_node (196-203)
BNodeUser ==
  /\ pc = "b_node"
  /\ node.cls = "NamedUser"
  /\ LET login == Attr(node.ent, "login")
     IN  /\ nodes_iris' = Register(nodes_iris, login, github2owl_users(login))
         /\ Describe(node.ent, describe_user_node(node.ent, nodes_iris'[login]))
  /\ pc' = "b_following"
  /\ UNCHANGED <<world, args, first_run, phase, pace_ret, nodes_queue, visited_nodes, num_iterations,
                 node, contributor, raised, faults, pre>>

\* for followed in islice(node.get_following(), 0, max_following) (205-212)
BFollowing ==
  /\ pc = "b_following"
  /\ RunLoop
  /\ Pace("b_user_repos")
  /\ UNCHANGED <<world, args, first_run, phase, visited_nodes, num_iterations, node, contributor,
                 raised, faults, described, pre>>

\* for repo in islice(node.get_repos(), 0, max_repos) (214-222)
BUserRepos ==
  /\ pc = "b_user_repos"
  /\ RunLoop
  /\ Pace("b_orgs")
  /\ UNCHANGED <<world, args, first_run, phase, visited_nodes, num_iterations, node, contributor,
                 raised, faults, described, pre>>

\* for orgs in islice(node.get_orgs(), 0, max_orgs); visited_nodes.add (224-231, 295)
BOrgs ==
  /\ pc = "b_orgs"
  /\ RunLoop
  /\ MarkVisited(Attr(node.ent, "login"))
  /\ UNCHANGED <<world, args, first_run, phase, pace_ret, node, contributor, raised, faults, described, pre>>

\* isinstance(node, Organization): register, describe_org_node (233-242)
BNodeOrg ==
  /\ pc = "b_node"
  /\ node.cls = "Organization"
  /\ LET org_name == Attr(node.ent, "login")
     IN  /\ nodes_iris' = Register(nodes_iris, org_name, github2owl_orgs(org_name))
         /\ Describe(node.ent, describe_org_node(node.ent, github2owl_orgs(org_name)))
  /\ pc' = "b_members"
  /\ UNCHANGED <<world, args, first_run, phase, pace_ret, nodes_queue, visited_nodes, num_iterations,
                 node, contributor, raised, faults, pre>>

\* for member in islice(node.get_members(), 0, max_members) (244-251)
BMembers ==
  /\ pc = "b_members"
  /\ RunLoop
  /\ Pace("b_org_repos")
  /\ UNCHANGED <<world, args, first_run, phase, visited_nodes, num_iterations, node, contributor,
                 raised, faults, described, pre>>

\* for repo in islice(node.get_repos(), 0, max_repos); visited_nodes.add (253-260, 295)
BOrgRepos ==
  /\ pc = "b_org_repos"
  /\ RunLoop
  /\ MarkVisited(Attr(node.ent, "login"))
  /\ UNCHANGED <<world, args, first_run, phase, pace_ret, node, contributor, raised, faults, described, pre>>

\* isinstance(node, Repository): register, describe_repo_node (262-269)
BNodeRepo ==
  /\ pc = "b_node"
  /\ node.cls = "Repository"
  /\ LET repo_name == RepoName(node.ent)
     IN  /\ nodes_iris' = Register(nodes_iris, repo_name, github2owl_repos(repo_name))
         /\ Describe(node.ent, describe_repo_node(node.ent, github2owl_repos(repo_name)))
  /\ pc' = "b_contributors"
  /\ UNCHANGED <<world, args, first_run, phase, pace_ret, nodes_queue, visited_nodes, num_iterations,
                 node, contributor, raised, faults, pre>>

\* the value the loop variable `contributor` holds after k passes of the loop
ContributorAfter(k) ==
  IF k = 0 THEN contributor ELSE ContributorsTargets(node.ent)[k].item

\* for contributor in islice(node.get_contributors(), 0, max_contributors) (271-281)
BContributors ==
  /\ pc = "b_contributors"
  /\ RunLoop
  /\ contributor' = ContributorAfter(Len(ContributorsTargets(node.ent)))
  /\ Pace("b_owner")
  /\ UNCHANGED <<world, args, first_run, phase, visited_nodes, num_iterations, node, raised, faults,
                 described, pre>>

\* The owner step (283-291), up to graph.add: the frontier and table it leaves and
\* the exception it ends with.  The table entry written is contributor.login.
OwnerStep ==
  LET repo_creator == Attr(node.ent, "owner")
      owner_login == Attr(repo_creator, "login")
      queue == IF owner_login \notin visited_nodes
               THEN Append(nodes_queue, Item(repo_creator)) ELSE nodes_queue
      known == owner_login \in DOMAIN nodes_iris
      unbound == ~known /\ contributor = NoItem
      iris == IF known \/ unbound THEN nodes_iris
              ELSE Bind(nodes_iris, Attr(contributor.ent, "login"),
                        ContributorIri(contributor.ent))
  IN  [queue |-> queue, iris |-> iris,
       exc |-> IF unbound THEN "UnboundLocalError"
               ELSE IF owner_login \notin DOMAIN iris THEN "KeyError"
               ELSE "none"]

\* repo_creator = node.owner ... visited_nodes.add(repo_name) (283-295)
BOwner ==
  /\ pc = "b_owner"
  /\ LET o == OwnerStep
         repo_name == RepoName(node.ent)
     IN  /\ nodes_queue' = o.queue
         /\ nodes_iris' = o.iris
         /\ IF o.exc = "none"
            THEN /\ graph' = graph \cup
                       {Triple(github2owl_repos(repo_name), "creator",
                               o.iris[Attr(Attr(node.ent, "owner"), "login")])}
                 /\ MarkVisited(repo_name)
                 /\ UNCHANGED raised
            ELSE /\ Raise(o.exc)
                 /\ UNCHANGED <<graph, visited_nodes, num_iterations>>
  /\ UNCHANGED <<world, args, first_run, phase, pace_ret, node, contributor, faults, described, pre>>

\* the item is none of the three classes: num_iterations += 1 (295)
BNodeOther ==
  /\ pc = "b_node"
  /\ node.cls = "str"
  /\ num_iterations' = num_iterations + 1
  /\ pc' = "b_loop"
  /\ UNCHANGED <<world, args, first_run, phase, pace_ret, nodes_queue, visited_nodes, nodes_iris, graph,
                 node, contributor, raised, faults, described, pre>>

\* ------------------------------------------------------------------------
\* Closure phase (lines 303-376)
\* ------------------------------------------------------------------------
\* isinstance(node, NamedUser): register, describe_user_node (311-318)
CNodeUser ==
  /\ pc = "c_node"
  /\ node.cls = "NamedUser"
  /\ LET login == Attr(node.ent, "login")
     IN  /\ nodes_iris' = Register(nodes_iris, login, github2owl_users(login))
         /\ Describe(node.ent, describe_user_node(node.ent, github2owl_users(login)))
  /\ pc' = "c_following"
  /\ UNCHANGED <<world, args, first_run, phase, pace_ret, nodes_queue, visited_nodes, num_iterations,
                 node, contributor, raised, faults, pre>>

\* for followed in islice(...): if followed.login in nodes_iris (320-324)
CFollowing ==
  /\ pc = "c_following"
  /\ RunLoop
  /\ Pace("c_user_repos")
  /\ UNCHANGED <<world, args, first_run, phase, visited_nodes, num_iterations, node, contributor,
                 raised, faults, described, pre>>

\* for repo in islice(...): if repo_name in nodes_iris (326-331)
CUserRepos ==
  /\ pc = "c_user_repos"
  /\ RunLoop
  /\ Pace("c_orgs")
  /\ UNCHANGED <<world, args, first_run, phase, visited_nodes, num_iterations, node, contributor,
                 raised, faults, described, pre>>

\* for org in islice(...): if org_name in nodes_iris; queue_elements += 1 (333-336, 369)
COrgs ==
  /\ pc = "c_orgs"
  /\ RunLoop
  /\ pc' = "c_loop"
  /\ UNCHANGED <<world, args, first_run, phase, pace_ret, visited_nodes, num_iterations, node, contributor,
                 raised, faults, described, pre>>

\* isinstance(node, Organization): register, describe_org_node (338-347)
CNodeOrg ==
  /\ pc = "c_node"
  /\ node.cls = "Organization"
  /\ LET org_name == Attr(node.ent, "login")
     IN  /\ nodes_iris' = Register(nodes_iris, org_name, github2owl_orgs(org_name))
         /\ Describe(node.ent, describe_org_node(node.ent, github2owl_orgs(org_name)))
  /\ pc' = "c_members"
  /\ UNCHANGED <<world, args, first_run, phase, pace_ret, nodes_queue, visited_nodes, num_iterations,
                 node, contributor, raised, faults, pre>>

\* for member in islice(...): if member.login in nodes_iris (349-353)
CMembers ==
  /\ pc = "c_members"
  /\ RunLoop
  /\ Pace("c_org_repos")
  /\ UNCHANGED <<world, args, first_run, phase, visited_nodes, num_iterations, node, contributor,
                 raised, faults, described, pre>>

\* for repo in islice(...): if repo_name in nodes_iris; queue_elements += 1 (355-358, 369)
COrgRepos ==
  /\ pc = "c_org_repos"
  /\ RunLoop
  /\ pc' = "c_loop"
  /\ UNCHANGED <<world, args, first_run, phase, pace_ret, visited_nodes, num_iterations, node, contributor,
                 raised, faults, described, pre>>

\* isinstance(node, Repository): register, describe_repo_node (360-369)
CNodeRepo ==
  /\ pc = "c_node"
  /\ node.cls = "Repository"
  /\ LET repo_name == RepoName(node.ent)
     IN  /\ nodes_iris' = Register(nodes_iris, repo_name, github2owl_repos(repo_name))
         /\ Describe(node.ent, describe_repo_node(node.ent, github2owl_repos(repo_name)))
  /\ pc' = "c_loop"
  /\ UNCHANGED <<world, args, first_run, phase, pace_ret, nodes_queue, visited_nodes, num_iterations,
                 node, contributor, raised, faults, pre>>

\* the item is none of the three classes: queue_elements += 1 (369)
CNodeOther ==
  /\ pc = "c_node"
  /\ node.cls = "str"
  /\ pc' = "c_loop"
  /\ UNCHANGED <<world, args, first_run, phase, pace_ret, nodes_queue, visited_nodes, nodes_iris,
                 num_iterations, graph, node, contributor, raised, faults, described, pre>>

\* ------------------------------------------------------------------------
\* Faults of the API client
\* ------------------------------------------------------------------------
ApiErrors == {"GithubException", "socket.error"}

ApiFault(exc) ==
  /\ faults < MaxFaults
  /\ faults' = faults + 1
  /\ Raise(exc)

\* github.rate_limiting raises inside pause_requests
PaceFault ==
  /\ pc = "pace"
  /\ \E exc \in ApiErrors : ApiFault(exc)
  /\ pace_ret' = "none"
  /\ UNCHANGED <<world, args, first_run, phase, nodes_queue, visited_nodes, nodes_iris, num_iterations,
                 graph, node, contributor, described, pre>>

\* the entity's node reference as the describer of this phase receives it
DescribedAs(e, iris) ==
  IF world[e].cls = "Repository" THEN github2owl_repos(RepoName(e))
  ELSE IF world[e].cls = "Organization" THEN github2owl_orgs(Attr(e, "login"))
  ELSE IF phase = "bounded" THEN iris[Attr(e, "login")]
  ELSE github2owl_users(Attr(e, "login"))

\* the table entry a node's branch writes before it describes the node
OwnIri(e) ==
  IF world[e].cls = "Repository" THEN github2owl_repos(RepoName(e))
  ELSE IF world[e].cls = "Organization" THEN github2owl_orgs(Attr(e, "login"))
  ELSE github2owl_users(Attr(e, "login"))

\* the API client raises inside the describer: the node is registered and the
\* triples added before the failing call stay
DescribeFault ==
  /\ pc \in {"b_node", "c_node"}
  /\ node.cls # "str"
  /\ \E exc \in ApiErrors : ApiFault(exc)
  /\ nodes_iris' = Register(nodes_iris, Key(node.ent), OwnIri(node.ent))
  /\ Describe(node.ent, DescribedBeforeFault(node.ent, DescribedAs(node.ent, nodes_iris')))
  /\ UNCHANGED <<world, args, first_run, phase, pace_ret, nodes_queue, visited_nodes, num_iterations,
                 node, contributor, pre>>

\* the API client raises while a listing is fetched, after k passes of its loop
ListingFault ==
  /\ pc \in BoundedListings \cup ClosureListings
  /\ \E exc \in ApiErrors : ApiFault(exc)
  /\ \E k \in 0..(IF Listing(pc).targets = <<>> THEN 0 ELSE Len(Listing(pc).targets) - 1) :
       \E st \in {AfterLoop(pc, k)} :
           /\ nodes_queue' = st.queue
           /\ nodes_iris' = st.iris
           /\ graph' = st.graph
           /\ contributor' = IF pc = "b_contributors" THEN ContributorAfter(k)
                             ELSE contributor
  /\ UNCHANGED <<world, args, first_run, phase, pace_ret, visited_nodes, num_iterations, node,
                 described, pre>>

\* node.owner raises
OwnerFault ==
  /\ pc = "b_owner"
  /\ \E exc \in ApiErrors : ApiFault(exc)
  /\ UNCHANGED <<world, args, first_run, phase, pace_ret, nodes_queue, visited_nodes, nodes_iris,
                 num_iterations, graph, node, contributor, described, pre>>

\* ------------------------------------------------------------------------
\* Exception handlers (297-301, 371-375)
\* ------------------------------------------------------------------------
\* a GithubException handler that also files the skipped node as visited
ExceptGithubException_marks_visited ==
  /\ pc = "except"
  /\ raised = "GithubException"
  /\ pc' = LoopHead
  /\ visited_nodes' = visited_nodes \cup {Key(node.ent)}
  /\ UNCHANGED <<world, args, first_run, phase, pace_ret, nodes_queue, nodes_iris,
                 num_iterations, graph, node, contributor, raised, faults, described, pre>>

\* a socket.error handler that puts the failed node back at the head of the frontier
ExceptSocketError_retries ==
  /\ pc = "except"
  /\ raised = "socket.error"
  /\ pc' = LoopHead
  /\ nodes_queue' = <<node>> \o nodes_queue
  /\ UNCHANGED <<world, args, first_run, phase, pace_ret, visited_nodes, nodes_iris,
                 num_iterations, graph, node, contributor, raised, faults, described, pre>>

\* except GithubException: print("Skipped ...")
ExceptGithubException ==
  /\ pc = "except"
  /\ raised = "GithubException"
  /\ pc' = LoopHead
  /\ UNCHANGED <<world, args, first_run, phase, pace_ret, nodes_queue, visited_nodes, nodes_iris,
                 num_iterations, graph, node, contributor, raised, faults, described, pre>>

\* except (socket.error, socket.gaierror): github = Github(...)
ExceptSocketError ==
  /\ pc = "except"
  /\ raised = "socket.error"
  /\ pc' = LoopHead
  /\ UNCHANGED <<world, args, first_run, phase, pace_ret, nodes_queue, visited_nodes, nodes_iris,
                 num_iterations, graph, node, contributor, raised, faults, described, pre>>

\* no handler matches: the exception leaves build_graph
Propagate ==
  /\ pc = "except"
  /\ raised \notin ApiErrors
  /\ pc' = "fatal"
  /\ UNCHANGED <<world, args, first_run, phase, pace_ret, nodes_queue, visited_nodes, nodes_iris,
                 num_iterations, graph, node, contributor, raised, faults, described, pre>>

\* ------------------------------------------------------------------------
\* A second call of build_graph
\* ------------------------------------------------------------------------
\* a second call that finds the visited set of the first call
Rerun_keeps_visited ==
  /\ pc \in {"done", "fatal"}
  /\ first_run = NoRun
  /\ faults = 0
  /\ first_run' = [ended |-> pc, graph |-> graph]
  /\ pc' = "seeding"
  /\ phase' = "bounded"
  /\ pace_ret' = "none"
  /\ nodes_queue' = <<>>
  /\ nodes_iris' = <<>>
  /\ num_iterations' = 1
  /\ graph' = {}
  /\ node' = NoItem
  /\ contributor' = NoItem
  /\ raised' = "none"
  /\ described' = [e \in Entities |-> 0]
  /\ pre' = [visited |-> {}, queue |-> <<>>, graph |-> {}]
  /\ UNCHANGED <<world, args, faults, visited_nodes>>

\* The caller, after a call that met no fault, calls build_graph again with the
\* same arguments on the same platform: every local starts afresh (180-184)
Rerun ==
  /\ pc \in {"done", "fatal"}
  /\ first_run = NoRun
  /\ faults = 0
  /\ first_run' = [ended |-> pc, graph |-> graph]
  /\ pc' = "seeding"
  /\ phase' = "bounded"
  /\ pace_ret' = "none"
  /\ nodes_queue' = <<>>
  /\ visited_nodes' = {}
  /\ nodes_iris' = <<>>
  /\ num_iterations' = 1
  /\ graph' = {}
  /\ node' = NoItem
  /\ contributor' = NoItem
  /\ raised' = "none"
  /\ described' = [e \in Entities |-> 0]
  /\ pre' = [visited |-> {}, queue |-> <<>>, graph |-> {}]
  /\ UNCHANGED <<world, args, faults>>

\* ------------------------------------------------------------------------
\* Specification
\* ------------------------------------------------------------------------
Next ==
  \/ Seeding
  \/ BDequeue
  \/ BExit
  \/ CDequeue
  \/ CExit
  \/ PaceReturn
  \/ PaceSleep
  \/ PaceWake
  \/ BNodeUser
  \/ BFollowing
  \/ BUserRepos
  \/ BOrgs
  \/ BNodeOrg
  \/ BMembers
  \/ BOrgRepos
  \/ BNodeRepo
  \/ BContributors
  \/ BOwner
  \/ BNodeOther
  \/ CNodeUser
  \/ CFollowing
  \/ CUserRepos
  \/ COrgs
  \/ CNodeOrg
  \/ CMembers
  \/ COrgRepos
  \/ CNodeRepo
  \/ CNodeOther
  \/ PaceFault
  \/ DescribeFault
  \/ ListingFault
  \/ OwnerFault
  \/ ExceptGithubException
  \/ ExceptSocketError
  \/ Propagate

Spec == Init /\ [][Next]_vars

\* build_graph is one thread that runs its next statement whenever it has one
FairSpec == Spec /\ WF_vars(Next)

\* build_graph called twice in a row
RerunNext == Next \/ Rerun

RerunSpec == Init /\ [][RerunNext]_vars

\* ------------------------------------------------------------------------
\* Properties
\* ------------------------------------------------------------------------
IsPrefix(a, b) == Len(a) <= Len(b) /\ SubSeq(b, 1, Len(a)) = a

\* the items appended to the frontier since the last dequeue
Appended == SubSeq(nodes_queue, Len(pre.queue) + 1, Len(nodes_queue))

\* a handler has just run for exception exc: build_graph is back at a loop test
Handled(exc) == raised = exc /\ pc \in {"b_loop", "c_loop"}

IsDescribed(iri) == \E t \in graph : t.s = iri /\ t.p = "type"

EdgesFrom(s, p) == {t \in graph : t.s = s /\ t.p = p}

\* C1: every run of build_graph terminates, whatever the API client does
\* (faults while a node is processed, a quota at or below the margin).
C1_Termination == <>(pc \in {"done", "fatal"})

\* C2: in one run a describer is called at most once per entity (stated for
\* the runs without any fault).
C2_NoDuplicateDescription ==
  faults = 0 => \A e \in Entities : described[e] <= 1

\* C3: when build_graph returns, the object of every edge triple has a type
\* triple (stated for the runs without any fault).
C3_EdgeCompleteness ==
  (pc = "done" /\ faults = 0) =>
     \A t \in graph : t.p \in EdgePredicates => IsDescribed(t.o)

\* the limit of the relation class an edge triple belongs to, 0 for "no limit":
\* the creator edge of a repository to its owner is in none of the classes
ClassLimit(t) ==
  CASE t.p = "follows" -> args.max_following
    [] t.p = "memberOf" -> args.max_orgs
    [] t.p = "member" -> args.max_members
    [] t.p = "contributor" -> args.max_contributors
    [] t.p = "creator" /\ t.s.ns \in {"users", "orgs"} -> args.max_repos
    [] OTHER -> 0

C5_IdentifierStability ==
  [][\A k \in DOMAIN nodes_iris :
        k \in DOMAIN nodes_iris' /\ nodes_iris'[k] = nodes_iris[k]]_vars

\* the entity class a seed kind stands for
SeedClass(seed_type) ==
  CASE seed_type = "user" -> "NamedUser"
    [] seed_type = "repo" -> "Repository"
    [] seed_type = "org" -> "Organization"

\* C6: for each of the three seed kinds Seeding succeeds and leaves the frontier
\* holding exactly the seed entity of that kind, with num_iterations = 1.
C6_Seeding ==
  [][pc = "seeding" =>
       /\ pc' = "b_loop"
       /\ nodes_queue' = <<[cls |-> SeedClass(args.seed_type), ent |-> args.seed_name]>>
       /\ num_iterations' = 1]_vars

\* C7: no exception other than the two recoverable kinds ends build_graph
\* while a node is processed.
C7_NoFatalEscape == ~(pc = "fatal" /\ node # NoItem)

\* C8: when processing of the dequeued node raises GithubException the handler
\* goes back to the loop test, the step has not added the node to visited_nodes
\* and the node is not among the items appended to the frontier.
C8_BlockedResourceSkip ==
  [][(pc = "except" /\ raised = "GithubException") =>
       /\ pc' = LoopHead
       /\ Key(node.ent) \notin (visited_nodes' \ pre.visited)
       /\ \A i \in (Len(pre.queue) + 1)..Len(nodes_queue') : nodes_queue'[i] # node]_vars

\* C8 witness: a GithubException has been handled for a node whose step had
\* already enqueued targets.
C8_Witness == Handled("GithubException") /\ Appended # <<>>

\* C9 as claimed: after a connectivity fault is handled, visited set and graph
\* are what they were before the node was dequeued and the frontier is the old
\* frontier minus its head.
C9_FaultRestoresState ==
  Handled("socket.error") =>
     /\ visited_nodes = pre.visited
     /\ graph = pre.graph
     /\ nodes_queue = pre.queue

\* C9 amended: after a connectivity fault is handled the visited set is what it
\* was before the node was dequeued, the graph contains the graph of that moment
\* and the frontier is the old frontier minus its head, followed by what the
\* failed step had enqueued.
C9_FaultKeepsState ==
  Handled("socket.error") =>
     /\ visited_nodes = pre.visited
     /\ pre.graph \subseteq graph
     /\ IsPrefix(pre.queue, nodes_queue)

\* C9 witness: a connectivity fault has been handled after the failed step had
\* added triples and enqueued targets.
C9_Witness ==
  /\ Handled("socket.error")
  /\ graph # pre.graph
  /\ Appended # <<>>

\* the arguments of the scenario: seed account alice, one iteration, two followed
Scenario ==
  /\ args.seed_name = "alice"
  /\ args.seed_type = "user"
  /\ args.max_iterations = 1
  /\ args.max_following = 2
  /\ faults = 0

UserIri(e) == github2owl_users(Attr(e, "login"))

\* C10: in the scenario bob, carol and alice/proj are in the frontier when the
\* bounded phase ends, and the final graph has a type triple for alice, bob,
\* carol and alice/proj, exactly the follows edges alice->bob and alice->carol
\* and the creator edge alice->alice/proj.
C10_Scenario ==
  /\ (Scenario /\ pc = "c_loop" /\ node = Item("alice")) =>
        \A e \in {"bob", "carol", "proj"} :
           \E i \in 1..Len(nodes_queue) : nodes_queue[i].ent = e
  /\ (Scenario /\ pc = "done") =>
        /\ {t.o : t \in EdgesFrom(UserIri("alice"), "follows")}
             = {UserIri("bob"), UserIri("carol")}
        /\ Triple(UserIri("alice"), "creator", github2owl_repos(RepoName("proj"))) \in graph
        /\ IsDescribed(UserIri("alice"))
        /\ IsDescribed(UserIri("bob"))
        /\ IsDescribed(UserIri("carol"))
        /\ IsDescribed(github2owl_repos(RepoName("proj")))

\* ------------------------------------------------------------------------
\* Properties of the describers, the second call, the closure phase, the pacer
\* ------------------------------------------------------------------------
\* C12: a second call of build_graph with the same arguments on the same
\* platform, both calls without faults, ends as the first call ended and returns
\* a graph with the same set of triples, whatever the quota read in either call.
C12_IdempotentRerun ==
  (first_run # NoRun /\ faults = 0 /\ pc \in {"done", "fatal"}) =>
     /\ pc = first_run.ended
     /\ pc = "done" => graph = first_run.graph

\* C12 witness: both calls have returned a graph with edges in it, the second
\* after work in both phases.
C12_Witness ==
  /\ first_run.ended = "done"
  /\ pc = "done"
  /\ faults = 0
  /\ visited_nodes # {}
  /\ \E t \in graph : t.p \in EdgePredicates

\* the describer of an account or organization has run to its end for the
\* dequeued node in this step
DescriberReturns ==
  /\ pc \in {"b_node", "c_node"}
  /\ node.cls \in {"NamedUser", "Organization"}
  /\ pc' \in {"b_following", "c_following", "b_members", "c_members"}

\* the email triples of graph g about node reference iri
EmailsOf(g, iri) == {t \in g : t.s = iri /\ t.p = "email"}

\* C11: when an account or organization has been described, the graph holds for
\* it exactly one email triple, the Text literal "mailto:" followed by the
\* sanitized email, if the email is present and its sanitized form is a valid
\* address, and no email triple otherwise.
C11_EmailValidation ==
  [][DescriberReturns =>
       LET e == node.ent
           iri == DescribedAs(e, nodes_iris')
           clean == Remove(Attr(e, "email"), " ")
       IN  EmailsOf(graph', iri) =
             IF Attr(e, "email") # NoText /\ validators_email(clean)
             THEN {Triple(iri, "email", Literal(<<"mailto:">> \o clean, "Text"))}
             ELSE {}]_vars

\* C11 witness: mia, whose email has a blank in it, has her one mailto triple
\* without the blank, guild has its own, and nick, whose email has no "@", is
\* described without an email triple.
C11_Witness ==
  /\ EmailsOf(graph, UserIri("mia"))
        = {Triple(UserIri("mia"), "email", Literal(<<"mailto:", "m", "@", "x">>, "Text"))}
  /\ Cardinality(EmailsOf(graph, github2owl_orgs(Attr("guild", "login")))) = 1
  /\ IsDescribed(UserIri("nick"))
  /\ EmailsOf(graph, UserIri("nick")) = {}

\* C13: once the first loop has ended build_graph stays in the second loop, the
\* only step that changes the frontier there is the dequeue at the loop head,
\* which removes exactly the head, and no other step of a node's processing,
\* completed or failed, adds or removes an item.
C13_ClosureOnlyShrinks ==
  [][phase = "closure" =>
       /\ phase' = "closure"
       /\ pc' \notin BoundedListings \cup {"b_loop", "b_node", "b_owner"}
       /\ nodes_queue' = IF pc = "c_loop" /\ pc' = "pace"
                         THEN Tail(nodes_queue) ELSE nodes_queue]_vars

\* C13 witness: the closure phase is at a relation loop of a node that has a
\* related entity the table does not know, and items are still in the frontier.
C13_Witness ==
  /\ phase = "closure"
  /\ pc \in ClosureListings
  /\ nodes_queue # <<>>
  /\ \E i \in 1..Len(Listing(pc).targets) :
        Listing(pc).targets[i].key \notin DOMAIN nodes_iris

\* the owner of repository e as a relation target
OwnerTarget(e) ==
  Target(Item(Attr(e, "owner")), Attr(Attr(e, "owner"), "login"),
         ContributorIri(Attr(e, "owner")))

\* the relation classes of entity e: the edge predicate and the related
\* entities within the limit of the class
RelationsOf(e) ==
  CASE world[e].cls = "NamedUser" ->
         {[pred |-> "follows", targets |-> FollowingTargets(e)],
          [pred |-> "creator", targets |-> ReposTargets(e)],
          [pred |-> "memberOf", targets |-> OrgsTargets(e)]}
    [] world[e].cls = "Organization" ->
         {[pred |-> "member", targets |-> MembersTargets(e)],
          [pred |-> "creator", targets |-> ReposTargets(e)]}
    [] world[e].cls = "Repository" ->
         {[pred |-> "contributor", targets |-> ContributorsTargets(e)],
          [pred |-> "creator", targets |-> <<OwnerTarget(e)>>]}

\* the processing of an entity dequeued in the closure phase ends without fault
\* in this step
ClosureStepEnds ==
  /\ phase = "closure"
  /\ pc \in {"c_orgs", "c_org_repos", "c_node"}
  /\ node.cls # "str"
  /\ pc' = "c_loop"

\* C14: when a node of any of the three classes has been processed without
\* fault in the closure phase, then for every relation class of the node and
\* every related entity within the limit, the edge from the node to the entity
\* is in the graph if the entity's key is in nodes_iris, and no edge to the
\* entity's node is in the graph if it is not.
C14_ClosureLinking ==
  [][ClosureStepEnds =>
       LET subj == nodes_iris'[Key(node.ent)]
       IN  \A r \in RelationsOf(node.ent) : \A i \in 1..Len(r.targets) :
             IF r.targets[i].key \in DOMAIN nodes_iris'
             THEN Triple(subj, r.pred, nodes_iris'[r.targets[i].key]) \in graph'
             ELSE Triple(subj, r.pred, r.targets[i].iri) \notin graph']_vars

\* target t of a bounded-phase step is resolved and linked from subj: its key is
\* in the table, bound to t's own node reference if the step bound it, and the
\* edge to the table entry is in the graph
Linked(subj, pred, t) ==
  /\ t.key \in DOMAIN nodes_iris'
  /\ t.key \notin DOMAIN nodes_iris => nodes_iris'[t.key] = t.iri
  /\ Triple(subj, pred, nodes_iris'[t.key]) \in graph'

\* C15: in the bounded phase every relation loop that runs to its end leaves
\* each related entity within the limit registered in nodes_iris and linked from
\* the node, whether or not the entity was enqueued, and so does the owner step
\* of a repository for the owner, unless node.owner itself raises.
C15_BoundedLinking ==
  [][/\ (pc \in BoundedListings /\ pc' # "except") =>
          \A i \in 1..Len(Listing(pc).targets) :
             Linked(Listing(pc).subj, Listing(pc).pred, Listing(pc).targets[i])
     /\ (pc = "b_owner" /\ raised' \notin ApiErrors) =>
          Linked(github2owl_repos(RepoName(node.ent)), "creator", OwnerTarget(node.ent))]_vars

\* C16: a call of pause_requests that sleeps returns when the sleep is over,
\* without reading the quota again, so that no call sleeps more than once.
C16_PacerSingleWait ==
  [][pc = "sleep" => pc' = pace_ret]_vars

\* C17: build_graph reaches a relation loop of either phase only from the
\* return of a pause_requests call, either directly or through the describer
\* call of the node just dequeued, which itself is reached only from the return
\* of a pause_requests call: between two relation loops of a node, and between
\* the dequeue and the first, there is a call of the pacer.
C17_PaceBeforeListing ==
  [][/\ (pc' \in BoundedListings \cup ClosureListings /\ pc' # pc) =>
          pc \in {"pace", "b_node", "c_node"}
     /\ (pc' \in {"b_node", "c_node"} /\ pc' # pc) => pc = "pace"]_vars

\* C17 witness: an account with followed accounts and repositories is at its
\* third relation loop, the organizations, in the bounded phase.
C17_Witness ==
  /\ pc = "b_orgs"
  /\ Attr(node.ent, "following") # <<>>
  /\ Attr(node.ent, "repos") # <<>>
  /\ Listing(pc).targets # <<>>

\* C18: every item of the frontier is an entity object of one of the three
\* classes, never a bare identifier.
C18_FrontierHoldsEntities ==
  \A i \in 1..Len(nodes_queue) :
     /\ nodes_queue[i].cls \in {"NamedUser", "Organization", "Repository"}
     /\ nodes_queue[i].cls = world[nodes_queue[i].ent].cls

\* C19: every node dequeued in the bounded phase has incremented
\* num_iterations when build_graph is back at the test of the first loop,
\* whether its processing completed or ended in a handled fault, so that the
\* first loop dequeues at most max_iterations nodes.
C19_IterationBudget ==
  [][(phase = "bounded" /\ pc \notin {"seeding", "b_loop"} /\ pc' = "b_loop") =>
       num_iterations' = num_iterations + 1]_vars

\* C20: every URL literal in the graph is a sanitized value that passes URL
\* validation, for the image, url and codeRepository triples of all three
\* classes.
C20_UrlValidation ==
  \A t \in graph :
     t.o.ns = "URL" => validators_url(t.o.v) /\ t.o.v = Remove(t.o.v, " ")

\* the namespace the object of an edge triple belongs in: the one of the class
\* of the entity the edge points to
ObjectNamespace(t) ==
  CASE t.p \in {"follows", "member"} -> {"users"}
    [] t.p = "memberOf" -> {"orgs"}
    [] t.p = "creator" /\ t.s.ns \in {"users", "orgs"} -> {"repos"}
    [] OTHER -> {"users", "orgs"}

\* C21: visited_nodes and nodes_iris do not take one entity for another: when a
\* bounded-phase relation loop has run, each related entity taken resolves in
\* nodes_iris to the node reference of its own class and key, it was kept out
\* of the frontier as visited only if that entity has been described, and the
\* object of every edge triple of the graph is in the namespace of the class
\* the edge points to; also when the sanitized full name of a repository is
\* the login of an account.
C21_KeysDoNotConflate ==
  [][/\ (pc \in BoundedListings /\ pc' # "except") =>
          \A i \in 1..Len(Listing(pc).targets) :
             /\ nodes_iris'[Listing(pc).targets[i].key] = Listing(pc).targets[i].iri
             /\ Listing(pc).targets[i].key \in visited_nodes =>
                  described[Listing(pc).targets[i].item.ent] > 0
     /\ \A t \in graph' :
          t.p \in EdgePredicates => t.o.ns \in ObjectNamespace(t)]_vars

====
